---- MODULE Spec2Model ----
(***************************************************************************)
(* Property search service (main.py) and per-user recommendation batch     *)
(* (recommend_property_by_user.py).                                        *)
(*                                                                         *)
(* Strings that the code inspects (areas) are sequences of one-character   *)
(* strings so that str.lower() is computed, character by character.        *)
(* Strings the code only carries (name, description, address) are opaque.  *)
(* Fractions are integers in thousandths (0.07 is 70, 0.075 is 75); costs  *)
(* are integers in currency units.                                         *)
(***************************************************************************)
EXTENDS Integers, Sequences, FiniteSets

VARIABLES ALL_PROPERTIES, user_preferences, csv_file, call, outcome

vars == <<ALL_PROPERTIES, user_preferences, csv_file, call, outcome>>

(* Longest tabular source file considered, in rows. *)
MaxRows == 2

(***************************************************************************)
(* Python values                                                           *)
(***************************************************************************)
(* Optional[T]: None, or a value of T. *)
None == [some |-> FALSE]
Some(v) == [some |-> TRUE, val |-> v]

is_not_None(x) == x.some

UPPERCASE == <<"A","B","C","D","E","F","G","H","I","J","K","L","M",
               "N","O","P","Q","R","S","T","U","V","W","X","Y","Z">>
LOWERCASE == <<"a","b","c","d","e","f","g","h","i","j","k","l","m",
               "n","o","p","q","r","s","t","u","v","w","x","y","z">>

(* The cased characters and their lowercase forms. *)
to_lower ==
    [c \in {UPPERCASE[i] : i \in 1..Len(UPPERCASE)} |->
        LOWERCASE[CHOOSE i \in 1..Len(UPPERCASE) : UPPERCASE[i] = c]]

(* One character of str.lower(). *)
lower_char(c) == IF c \in DOMAIN to_lower THEN to_lower[c] ELSE c

(* str.lower() *)
lower(s) == [i \in 1..Len(s) |-> lower_char(s[i])]

(* Truth value of an Optional[str]: None and "" are both falsy. *)
truthy_str(x) == x.some /\ x.val # <<>>

(***************************************************************************)
(* Area names                                                              *)
(***************************************************************************)
Business_Bay == <<"B","u","s","i","n","e","s","s"," ","B","a","y">>
Downtown_Dubai == <<"D","o","w","n","t","o","w","n"," ","D","u","b","a","i">>
Arabian_Ranches == <<"A","r","a","b","i","a","n"," ","R","a","n","c","h","e","s">>
JLT == <<"J","L","T">>
Palm_Jumeirah == <<"P","a","l","m"," ","J","u","m","e","i","r","a","h">>
business_bay == <<"b","u","s","i","n","e","s","s"," ","b","a","y">>
BUSINESS_BAY == <<"B","U","S","I","N","E","S","S"," ","B","A","Y">>
Business == <<"B","u","s","i","n","e","s","s">>
EmptyStr == <<>>

(***************************************************************************)
(* main.py: data model and preloaded collection                            *)
(***************************************************************************)
Property(id, name, area, cost, expected_roi, description, address) ==
    [id |-> id, name |-> name, area |-> area, cost |-> cost,
     expected_roi |-> expected_roi, description |-> description,
     address |-> address]

property_data ==
    << Property(1, "Luxury Apartment - Business Bay", Business_Bay, 1500000, 70,
                "Spacious 2-bedroom apartment with canal views.",
                "Tower A, Business Bay"),
       Property(2, "Penthouse Suite - Downtown Dubai", Downtown_Dubai, 5000000, 40,
                "Exclusive penthouse with panoramic city views.",
                "Burj Views, Downtown Dubai"),
       Property(3, "Modern Villa - Arabian Ranches", Arabian_Ranches, 3000000, 60,
                "Family villa with private garden and pool access.",
                "Al Reem 1, Arabian Ranches"),
       Property(4, "Studio Flat - Business Bay", Business_Bay, 800000, 80,
                "Compact studio ideal for young professionals.",
                "The Executive Towers, Business Bay"),
       Property(5, "Commercial Office - JLT", JLT, 2000000, 75,
                "Grade A office space near metro station.",
                "Cluster D, Jumeirah Lakes Towers"),
       Property(6, "Premium Apartment - Business Bay", Business_Bay, 1200000, 65,
                "1-bedroom apartment with high rental yield potential.",
                "Bay Square, Business Bay"),
       Property(7, "Luxury Condo - Palm Jumeirah", Palm_Jumeirah, 7000000, 50,
                "Waterfront condo with private beach access.",
                "Shoreline Apartments, Palm Jumeirah"),
       Property(8, "Townhouse - Business Bay", Business_Bay, 2800000, 55,
                "Spacious townhouse in a prime Business Bay location.",
                "Marasi Drive, Business Bay") >>

(***************************************************************************)
(* main.py: GET /properties/search                                         *)
(***************************************************************************)
(* Query(None, ge=0.0) *)
roi_valid(roi) == is_not_None(roi) => roi.val >= 0

(* Variant: the cost bound is not strict (ge instead of gt). *)
cost_valid_ge(cost) == is_not_None(cost) => cost.val >= 0

(* Query(None, gt=0.0) *)
cost_valid(cost) == is_not_None(cost) => cost.val > 0

(* normalized_area = area.lower() if area else None *)
normalize_area(area) == IF truthy_str(area) THEN Some(lower(area.val)) ELSE None

(* Variant: a listing whose ROI equals the threshold is dropped. *)
roi_condition_strict(prop, roi) ==
    IF is_not_None(roi) THEN prop.expected_roi > roi.val ELSE TRUE

roi_condition(prop, roi) ==
    IF is_not_None(roi) THEN prop.expected_roi >= roi.val ELSE TRUE

area_condition(prop, normalized_area) ==
    IF is_not_None(normalized_area) THEN lower(prop.area) = normalized_area.val ELSE TRUE

cost_condition(prop, cost) ==
    IF is_not_None(cost) THEN prop.cost <= cost.val ELSE TRUE

(* Variant: a match is inserted at the front of the result. *)
append_found_front(found_properties, prop) == <<prop>> \o found_properties

(* found_properties.append(prop) *)
append_found(found_properties, prop) == Append(found_properties, prop)

(* The for loop over the collection, from position i on. *)
RECURSIVE search_loop(_, _, _, _, _, _)
search_loop(props, i, found_properties, roi, normalized_area, cost) ==
    IF i > Len(props) THEN found_properties
    ELSE LET prop == props[i]
             keep == /\ roi_condition(prop, roi)
                     /\ area_condition(prop, normalized_area)
                     /\ cost_condition(prop, cost)
         IN search_loop(props, i + 1,
                        IF keep THEN append_found(found_properties, prop)
                                ELSE found_properties,
                        roi, normalized_area, cost)

(* Body of search_properties over a collection. *)
search_properties(props, roi, area, cost) ==
    search_loop(props, 1, <<>>, roi, normalize_area(area), cost)

(* The response to one request: query validation, then the handler. *)
search_response(props, roi, area, cost) ==
    IF roi_valid(roi) /\ cost_valid(cost)
    THEN [status |-> 200, body |-> search_properties(props, roi, area, cost)]
    ELSE [status |-> 422, body |-> <<>>]

RoiInputs == {None, Some(-10), Some(0), Some(70)}
AreaInputs == {None, Some(EmptyStr), Some(Business_Bay), Some(business_bay),
               Some(Business)}
CostInputs == {None, Some(-1), Some(0), Some(1500000)}

(* Variant: the handler filters the preloaded collection in place. *)
search_properties_request_in_place(roi, area, cost) ==
    /\ call' = [op |-> "search_properties", roi |-> roi, area |-> area, cost |-> cost]
    /\ outcome' = search_response(ALL_PROPERTIES, roi, area, cost)
    /\ ALL_PROPERTIES' = outcome'.body
    /\ UNCHANGED <<user_preferences, csv_file>>

(* One GET /properties/search request. *)
search_properties_request(roi, area, cost) ==
    /\ call' = [op |-> "search_properties", roi |-> roi, area |-> area, cost |-> cost]
    /\ outcome' = search_response(ALL_PROPERTIES, roi, area, cost)
    /\ UNCHANGED <<ALL_PROPERTIES, user_preferences, csv_file>>

Search == \E roi \in RoiInputs, area \in AreaInputs, cost \in CostInputs :
              search_properties_request(roi, area, cost)

(***************************************************************************)
(* recommend_property_by_user.py: preferences and DataFrames               *)
(***************************************************************************)
Preference(area, max_cost, min_roi) ==
    [area |-> area, max_cost |-> max_cost, min_roi |-> min_roi]

stored_preferences ==
    [u \in 101..107 |->
        CASE u = 101 -> Preference(Some(Business_Bay), Some(1600000), Some(70))
          [] u = 102 -> Preference(Some(Downtown_Dubai), Some(6000000), Some(40))
          [] u = 103 -> Preference(Some(Arabian_Ranches), Some(3500000), Some(50))
          [] u = 104 -> Preference(None, Some(1000000), Some(70))
          [] u = 105 -> Preference(Some(JLT), Some(2500000), Some(70))
          [] u = 106 -> Preference(Some(Business_Bay), None, Some(60))
          [] u = 107 -> Preference(None, None, None)]

(* A DataFrame is its column labels and its rows in order; a row maps the  *)
(* column labels, and "index" (the row label), to the cell values.         *)
DataFrame(columns, rows) == [columns |-> columns, rows |-> rows]

(* pd.read_csv: the file's rows in file order, labelled 0, 1, 2, ... *)
read_csv(file) ==
    DataFrame(file.columns,
              [i \in 1..Len(file.rows) |->
                  [c \in file.columns \cup {"index"} |->
                      IF c = "index" THEN i - 1 ELSE file.rows[i][c]]])

(* DataFrame.to_csv(..., index=False): the rows without their labels. *)
to_csv(df) ==
    [columns |-> df.columns,
     rows |-> [i \in 1..Len(df.rows) |-> [c \in df.columns |-> df.rows[i][c]]]]

(* DataFrame.copy() *)
copy(df) == DataFrame(df.columns, df.rows)

(* DataFrame.empty *)
empty(df) == Len(df.rows) = 0

(* The outcome of a call: a returned value, or an exception raised. *)
Return(v) == [exc |-> "none", value |-> Some(v)]
Raise(e) == [exc |-> e, value |-> None]

(* Apply area filter if specified *)
area_filter(user_pref, recommended_df) ==
    IF truthy_str(user_pref.area)
    THEN LET preferred_area_lower == lower(user_pref.area.val)
         IN IF "area" \in recommended_df.columns
            THEN Return(DataFrame(recommended_df.columns,
                     SelectSeq(recommended_df.rows,
                               LAMBDA row : lower(row.area) = preferred_area_lower)))
            ELSE Raise("KeyError")
    ELSE Return(recommended_df)

(* Variant: the cost comparison is strict. *)
cost_filter_strict(user_pref, recommended_df) ==
    IF is_not_None(user_pref.max_cost)
    THEN IF "cost" \in recommended_df.columns
         THEN Return(DataFrame(recommended_df.columns,
                  SelectSeq(recommended_df.rows,
                            LAMBDA row : row.cost < user_pref.max_cost.val)))
         ELSE Raise("KeyError")
    ELSE Return(recommended_df)

(* Apply maximum cost filter if specified *)
cost_filter(user_pref, recommended_df) ==
    IF is_not_None(user_pref.max_cost)
    THEN IF "cost" \in recommended_df.columns
         THEN Return(DataFrame(recommended_df.columns,
                  SelectSeq(recommended_df.rows,
                            LAMBDA row : row.cost <= user_pref.max_cost.val)))
         ELSE Raise("KeyError")
    ELSE Return(recommended_df)

(* Variant: a missing min_roi is read as a threshold of 100%. *)
roi_filter_default(user_pref, recommended_df) ==
    LET min_roi == IF is_not_None(user_pref.min_roi) THEN user_pref.min_roi.val ELSE 1000
    IN IF "expected_roi" \in recommended_df.columns
       THEN Return(DataFrame(recommended_df.columns,
                SelectSeq(recommended_df.rows,
                          LAMBDA row : row.expected_roi >= min_roi)))
       ELSE Raise("KeyError")

(* Apply minimum ROI filter if specified *)
roi_filter(user_pref, recommended_df) ==
    IF is_not_None(user_pref.min_roi)
    THEN IF "expected_roi" \in recommended_df.columns
         THEN Return(DataFrame(recommended_df.columns,
                  SelectSeq(recommended_df.rows,
                            LAMBDA row : row.expected_roi >= user_pref.min_roi.val)))
         ELSE Raise("KeyError")
    ELSE Return(recommended_df)

(* Variant: the preference is looked up without the membership test. *)
recommend_properties_unchecked(prefs, user_id, properties_df) ==
    IF user_id \notin DOMAIN prefs
    THEN [printed |-> <<>>, result |-> Raise("KeyError"), properties_df |-> properties_df]
    ELSE LET user_pref == prefs[user_id]
             by_area == area_filter(user_pref, copy(properties_df))
             by_cost == IF by_area.exc = "none"
                        THEN cost_filter(user_pref, by_area.value.val) ELSE by_area
             by_roi == IF by_cost.exc = "none"
                       THEN roi_filter(user_pref, by_cost.value.val) ELSE by_cost
         IN [printed |-> <<>>, result |-> by_roi, properties_df |-> properties_df]

(* recommend_properties under a preference table: what it prints, what it  *)
(* returns or raises, and the caller's DataFrame after the call.           *)
recommend_properties(prefs, user_id, properties_df) ==
    IF user_id \notin DOMAIN prefs
    THEN [printed |-> <<"Error: No preferences found for user ID">>,
          result |-> Return(DataFrame(properties_df.columns, <<>>)),
          properties_df |-> properties_df]
    ELSE LET user_pref == prefs[user_id]
             by_area == area_filter(user_pref, copy(properties_df))
             by_cost == IF by_area.exc = "none"
                        THEN cost_filter(user_pref, by_area.value.val) ELSE by_area
             by_roi == IF by_cost.exc = "none"
                       THEN roi_filter(user_pref, by_cost.value.val) ELSE by_cost
         IN [printed |-> <<>>, result |-> by_roi, properties_df |-> properties_df]

user_id_1 == 101

expected_columns == {"area", "cost", "expected_roi"}

(* Variant: the output file is written whatever the recommendation holds. *)
should_write_always(recommendations_1) == TRUE

(* if not recommendations_1.empty *)
should_write(recommendations_1) == ~empty(recommendations_1)

(* main: load, column check, recommendation for user_id_1, output file. *)
main(prefs, file) ==
    LET properties_df == read_csv(file)
    IN IF ~(expected_columns \subseteq properties_df.columns)
       THEN [result |-> Raise("ValueError"), recommendations_1 |-> None,
             printed |-> <<>>, written |-> {}]
       ELSE LET r == recommend_properties(prefs, user_id_1, properties_df)
            IN IF r.result.exc # "none"
               THEN [result |-> r.result, recommendations_1 |-> None,
                     printed |-> r.printed, written |-> {}]
               ELSE LET recommendations_1 == r.result.value.val
                    IN IF should_write(recommendations_1)
                       THEN [result |-> Return(properties_df),
                             recommendations_1 |-> Some(recommendations_1),
                             printed |-> r.printed,
                             written |-> {[user_id |-> user_id_1,
                                           content |-> to_csv(recommendations_1)]}]
                       ELSE [result |-> Return(properties_df),
                             recommendations_1 |-> Some(recommendations_1),
                             printed |-> Append(r.printed,
                                 "No properties found matching criteria."),
                             written |-> {}]

(***************************************************************************)
(* Source files                                                            *)
(***************************************************************************)
all_columns == {"id", "name", "area", "cost", "expected_roi", "description", "address"}

FileRows ==
    { property_data[1],
      property_data[2],
      property_data[5],
      Property(9, "Loft - Business Bay", BUSINESS_BAY, 1600000, 60, "", ""),
      Property(10, "Flat - Business Bay", business_bay, 1000000, 70, "", "") }

SeqsUpTo(S, n) == UNION {[1..k -> S] : k \in 0..n}

(* Files with every column, and files that lack one required column. *)
CsvFiles ==
    {[columns |-> all_columns, rows |-> rows] : rows \in SeqsUpTo(FileRows, MaxRows)}
    \cup
    {[columns |-> all_columns \ {c},
      rows |-> [i \in 1..Len(rows) |-> [d \in all_columns \ {c} |-> rows[i][d]]]] :
        c \in expected_columns, rows \in SeqsUpTo(FileRows, 1)}

UserIds == (DOMAIN stored_preferences) \cup {999}

(* One call recommend_properties(user_id, properties_df). *)
recommend_properties_call(user_id, properties_df) ==
    /\ call' = [op |-> "recommend_properties", user_id |-> user_id,
                properties_df |-> properties_df]
    /\ outcome' = recommend_properties(user_preferences, user_id, properties_df)
    /\ UNCHANGED <<ALL_PROPERTIES, user_preferences, csv_file>>

Recommend == \E user_id \in UserIds :
                 recommend_properties_call(user_id, read_csv(csv_file))

(* One run of the batch driver. *)
main_run ==
    /\ call' = [op |-> "main", file |-> csv_file]
    /\ outcome' = main(user_preferences, csv_file)
    /\ UNCHANGED <<ALL_PROPERTIES, user_preferences, csv_file>>

Init ==
    /\ ALL_PROPERTIES = property_data
    /\ user_preferences = stored_preferences
    /\ csv_file \in CsvFiles
    /\ call = [op |-> "start"]
    /\ outcome = [status |-> 0]

Next == Search \/ Recommend \/ main_run

Spec == Init /\ [][Next]_vars

(***************************************************************************)
(* Helpers for the properties                                              *)
(***************************************************************************)
is_search == call.op = "search_properties"
is_recommend == call.op = "recommend_properties"
is_main == call.op = "main"

InSeq(x, s) == \E i \in 1..Len(s) : s[i] = x

(* s is t with some elements removed: same elements, same relative order. *)
RECURSIVE IsSubSeqFrom(_, _, _, _)
IsSubSeqFrom(s, i, t, j) ==
    IF i > Len(s) THEN TRUE
    ELSE IF j > Len(t) THEN FALSE
    ELSE IF s[i] = t[j] THEN IsSubSeqFrom(s, i + 1, t, j + 1)
    ELSE IsSubSeqFrom(s, i, t, j + 1)

IsSubSeq(s, t) == IsSubSeqFrom(s, 1, t, 1)

NoRepeats(s) == \A i, j \in 1..Len(s) : s[i] = s[j] => i = j

Ids(s) == [i \in 1..Len(s) |-> s[i].id]

(* A listing satisfies every criterion that the request supplies. *)
SatisfiesSupplied(L, roi, area, cost) ==
    /\ roi.some => L.expected_roi >= roi.val
    /\ area.some => lower(L.area) = lower(area.val)
    /\ cost.some => L.cost <= cost.val

Rejected(roi, cost) == (roi.some /\ roi.val < 0) \/ (cost.some /\ cost.val <= 0)

(* C1: an accepted search returns a listing of the preloaded collection    *)
(* exactly when the listing satisfies every supplied criterion; an absent  *)
(* criterion constrains nothing.                                           *)
C1_SearchIffAllSupplied ==
    (is_search /\ outcome.status = 200) =>
        \A i \in 1..Len(ALL_PROPERTIES) :
            InSeq(ALL_PROPERTIES[i], outcome.body)
                <=> SatisfiesSupplied(ALL_PROPERTIES[i], call.roi, call.area, call.cost)

(* C2: whenever the area criterion is present, the empty string included,  *)
(* every returned listing has the requested area up to letter case, and    *)
(* requests whose areas differ only in case get the same response.         *)
C2_AreaPresentExactMatch ==
    (is_search /\ outcome.status = 200 /\ call.area.some) =>
        /\ \A j \in 1..Len(outcome.body) :
               lower(outcome.body[j].area) = lower(call.area.val)
        /\ \A other \in AreaInputs :
               (other.some /\ lower(other.val) = lower(call.area.val)) =>
                   search_response(ALL_PROPERTIES, call.roi, other, call.cost) = outcome

(* C3: the result of a search or of a recommend call is a sub-sequence of  *)
(* its input: no more listings, none foreign, none twice, order kept.      *)
C3_ResultIsSubsequence ==
    /\ (is_search /\ outcome.status = 200) =>
           /\ Len(outcome.body) <= Len(ALL_PROPERTIES)
           /\ IsSubSeq(outcome.body, ALL_PROPERTIES)
           /\ NoRepeats(Ids(outcome.body))
    /\ (is_recommend /\ outcome.result.exc = "none") =>
           LET rows == outcome.result.value.val.rows
           IN /\ Len(rows) <= Len(call.properties_df.rows)
              /\ IsSubSeq(rows, call.properties_df.rows)
              /\ NoRepeats([i \in 1..Len(rows) |-> rows[i].index])

C3_Witness ==
    /\ is_search /\ outcome.status = 200
    /\ Len(outcome.body) >= 2 /\ Len(outcome.body) < Len(ALL_PROPERTIES)

(* C4: on the embedded dataset, roi=0.07 with area="Business Bay" and no   *)
(* cost returns exactly the listings 1 and 4, in that order.               *)
C4_ReferenceQuery ==
    (is_search /\ call.roi = Some(70) /\ call.area = Some(Business_Bay)
               /\ call.cost = None) =>
        /\ outcome.status = 200
        /\ Ids(outcome.body) = <<1, 4>>

C4_Witness ==
    /\ is_search /\ call.roi = Some(70) /\ call.area = Some(Business_Bay)
    /\ call.cost = None /\ Len(outcome.body) = 2

(* C5: a search is rejected with 422 and no listings exactly when its roi  *)
(* is negative or its cost is not positive, and a rejection changes no     *)
(* later response: each accepted request gets the answer computed from the *)
(* collection as loaded.                                                   *)
C5_ValidationIsLocal ==
    /\ [](is_search =>
            /\ outcome.status \in {200, 422}
            /\ outcome.status = 422 <=> Rejected(call.roi, call.cost)
            /\ outcome.status = 422 => outcome.body = <<>>)
    /\ [][(is_search /\ outcome.status = 422 /\ call'.op = "search_properties"
              /\ ~Rejected(call'.roi, call'.cost)) =>
             outcome' = [status |-> 200,
                         body |-> search_properties(property_data, call'.roi,
                                                    call'.area, call'.cost)]]_vars

C5_Witness == is_search /\ outcome.status = 422 /\ call.cost = Some(0)

(* C6: recommend for a user without a stored preference returns an empty   *)
(* sequence, raises nothing, prints a diagnostic and leaves the listings   *)
(* passed in unchanged.                                                    *)
C6_UnknownUserIsEmpty ==
    (is_recommend /\ call.user_id \notin DOMAIN stored_preferences) =>
        /\ outcome.result.exc = "none"
        /\ outcome.result.value.val.rows = <<>>
        /\ outcome.printed # <<>>
        /\ outcome.properties_df = call.properties_df

C6_Witness ==
    /\ is_recommend /\ call.user_id = 999
    /\ Len(call.properties_df.rows) = MaxRows

(* C7: recommend for user 107, whose preference is all None, returns every *)
(* input listing in input order.                                           *)
C7_NoPreferenceReturnsAll ==
    (is_recommend /\ call.user_id = 107) =>
        /\ outcome.result.exc = "none"
        /\ outcome.result.value.val = call.properties_df

C7_Witness ==
    /\ is_recommend /\ call.user_id = 107
    /\ Len(call.properties_df.rows) >= 2
    /\ call.properties_df.rows[1].id # call.properties_df.rows[2].id

(* C8: the driver writes the output file of a user only for a non-empty    *)
(* recommendation, and a source without a required column fails the run    *)
(* before any recommendation is computed or written.                       *)
C8_WriteOnlyNonEmpty ==
    is_main =>
        /\ outcome.written # {} =>
               /\ outcome.recommendations_1.some
               /\ outcome.recommendations_1.val.rows # <<>>
               /\ outcome.written = {[user_id |-> user_id_1,
                                      content |-> to_csv(outcome.recommendations_1.val)]}
        /\ (outcome.recommendations_1.some /\ outcome.recommendations_1.val.rows = <<>>) =>
               outcome.written = {}
        /\ ~(expected_columns \subseteq call.file.columns) =>
               /\ outcome.result.exc = "ValueError"
               /\ outcome.recommendations_1 = None
               /\ outcome.written = {}

C8_Witness ==
    /\ is_main /\ outcome.recommendations_1.some
    /\ outcome.recommendations_1.val.rows = <<>>
    /\ call.file.rows # <<>>

(* C9: for a user with a stored preference, recommend returns what the     *)
(* search filter returns on the same listings for the criteria taken from  *)
(* the preference, and the order of the three filters does not matter.     *)
C9_RecommendMatchesSearch ==
    (/\ is_recommend
     /\ call.user_id \in DOMAIN stored_preferences
     /\ expected_columns \subseteq call.properties_df.columns) =>
        LET pref == stored_preferences[call.user_id]
            df == call.properties_df
            by_roi == roi_filter(pref, df)
            by_cost == cost_filter(pref, by_roi.value.val)
            by_area == area_filter(pref, by_cost.value.val)
        IN /\ outcome.result =
                  Return(DataFrame(df.columns,
                         search_properties(df.rows, pref.min_roi, pref.area,
                                           pref.max_cost)))
           /\ outcome.result = by_area

C9_Witness ==
    /\ is_recommend /\ call.user_id = 104
    /\ Len(call.properties_df.rows) = 2
    /\ Len(outcome.result.value.val.rows) = 1

(* C10: no request and no recommend call modifies the preloaded            *)
(* collection, the preference table, the source file, or the listings      *)
(* passed to recommend.                                                    *)
C10_NothingModified ==
    [][/\ ALL_PROPERTIES' = ALL_PROPERTIES
       /\ user_preferences' = user_preferences
       /\ csv_file' = csv_file
       /\ call'.op = "recommend_properties" =>
              outcome'.properties_df = call'.properties_df]_vars

C10_Witness ==
    /\ is_recommend /\ outcome.result.exc = "none"
    /\ outcome.result.value.val.rows # <<>>
    /\ ALL_PROPERTIES = property_data
    /\ user_preferences = stored_preferences
====
